---------------------------- MODULE Spec2Model ----------------------------
(***************************************************************************)
(* State-machine models of the sketches of the automated plant watering    *)
(* station (Arduino Nano ESP32):                                           *)
(*   - main.ino                              (specification SpecMain)      *)
(*   - test_sleep_mode_with_interrupt.ino    (specification SpecSleep)     *)
(*   - Test_command_relay_with_push_button   (specification SpecButton)    *)
(*   - Test_command_relay.ino                (specification SpecRelay)     *)
(* SpecInitRtc runs init_rtc() of the sleep test on its own, and           *)
(* SpecRollover applies the unsigned long debounce tests to chosen times.  *)
(* The sketches are independent programs.  Each specification runs one of  *)
(* them; the records of the other sketches stay "off".                     *)
(*                                                                         *)
(* Interrupts: an edge on an input pin latches an interrupt request; the   *)
(* handler then runs to completion before the interrupted code continues. *)
(* The pin may change again between the edge and the handler's            *)
(* digitalRead (contact bounce).                                           *)
(*                                                                         *)
(* Time: millis is the 32-bit millisecond counter.  Straight-line code     *)
(* takes no time; time passes inside delay() and inside an empty loop().   *)
(***************************************************************************)
EXTENDS Integers, Naturals, Sequences, FiniteSets, TLC

VARIABLES
    millis,   \* value returned by millis() (unsigned long, 32 bits)
    main,     \* main.ino: a record, see MainInit
    slp,      \* test_sleep_mode_with_interrupt.ino: a record, see SleepInit
    btn,      \* Test_command_relay_with_push_button.ino: a record, see ButtonInit
    rly,      \* Test_command_relay.ino: a record, see RelayInit
    roll      \* the debounce tests applied to chosen times: a record, see RolloverInit

vars == << millis, main, slp, btn, rly, roll >>

---------------------------------------------------------------------------
(* Arduino / C++ basics *)

LOW == 0
HIGH == 1
Levels == {LOW, HIGH}

\* operator ! applied to a pin level
Not(level) == IF level = LOW THEN HIGH ELSE LOW

\* unsigned long is 32 bits wide on the ESP32.  A value is kept as its two
\* 16-bit halves, so that the arithmetic modulo 2^32 is exact.
Half == 2 ^ 16
ULong(n) == [hi |-> (n \div Half) % Half, lo |-> n % Half]
\* a + b and a - b on unsigned long
ULongAdd(a, b) ==
    LET lo == a.lo + b.lo
    IN [hi |-> (a.hi + b.hi + (lo \div Half)) % Half, lo |-> lo % Half]
ULongSub(a, b) ==
    LET lo == a.lo - b.lo
        borrow == IF lo < 0 THEN 1 ELSE 0
    IN [hi |-> (a.hi - b.hi - borrow) % Half, lo |-> lo % Half]
\* a > b on unsigned long
ULongGreater(a, b) == a.hi > b.hi \/ (a.hi = b.hi /\ a.lo > b.lo)
\* the number an unsigned long below 2^31 stands for
Val(a) == a.hi * Half + a.lo

\* conversion of an unsigned long to unsigned short (16 bits)
UShort(a) == a.lo

---------------------------------------------------------------------------
(* Bounds of the model *)

\* time passes in steps of TickMs milliseconds
TickMs == 25
\* inside a delay(), button activity is explored during its first MaxGap ms
MaxGap == 100
\* loop() of main.ino starts no new iteration after this uptime
MaxUptimeMain == 110000

---------------------------------------------------------------------------
(* main.ino *)

BASE_DRY_THRESHOLD == 1900
POLLING_PERIOD_M == 30
DEBOUNCE_DELAY == 50
WateringMs == 5000

\* values analogRead(PIN_MOIST_SENSOR) returns: the observed extremes
\* (1100 in water, 3350 in the air), the dry soil of the header note and
\* both sides of the threshold
SensorValues == {1100, 1900, 1901, 2800, 3350}

\* isSoilDry(): return valSensor > BASE_DRY_THRESHOLD
isSoilDry(valSensor) == valSensor > BASE_DRY_THRESHOLD

\* argument of the polling delay() without DEBUG_MODE
PollingDelayMs == POLLING_PERIOD_M * 3600

\* the debounce test of handlePumpButton: lastEdgeTime (unsigned short) is
\* promoted, the subtraction is done on unsigned long
MainDebounced(currTime, lastEdge) ==
    ULongGreater(ULongSub(currTime, ULong(lastEdge)), ULong(DEBOUNCE_DELAY))

\* what handlePumpButton stores in lastEdgeTime (an unsigned short)
MainStoredTime(currTime) == UShort(currTime)

\* positions of loop() at which it sits in a delay()
MainDelays == {"watering", "polling"}

MainInit ==
    \E relay0 \in Levels :
      main = [ pc           |-> "setup",
               PIN_RELAY    |-> relay0,  \* setup() never writes PIN_RELAY: the pin
                                         \* shows what the output latch holds
               PIN_LED_G    |-> LOW,
               PIN_LED_Y    |-> LOW,
               PIN_PUMP_BUTTON |-> LOW,
               irq          |-> FALSE,   \* an edge waits for handlePumpButton
               lastEdgeTime |-> 0,
               delayStart   |-> ULong(0),      \* delay(): the time it was entered
               delayMs      |-> 0,       \* delay(): its argument
               \* history variables
               accepted     |-> FALSE,   \* the handler has accepted an edge
               lastAccept   |-> ULong(0), \* millis() of the last accepted edge
               forced       |-> FALSE,   \* a press was accepted and the handler
                                         \* has not run for a release since
               touched      |-> FALSE ]  \* the button changed level since boot

\* setup(): pin modes, both LEDs off, attachInterrupt(..., CHANGE)
MainSetup ==
    /\ main.pc = "setup"
    /\ main' = [main EXCEPT !.PIN_LED_G = LOW, !.PIN_LED_Y = LOW, !.pc = "loop"]
    /\ UNCHANGED << millis, slp, btn, rly, roll >>

\* the user presses or releases the push button; once the interrupt is
\* attached (mode CHANGE) the edge requests handlePumpButton
MainButtonEdge ==
    /\ main' = [main EXCEPT !.PIN_PUMP_BUTTON = Not(@),
                            !.touched = TRUE,
                            !.irq = IF main.pc = "setup" THEN @ ELSE TRUE]
    /\ UNCHANGED << millis, slp, btn, rly, roll >>

\* handlePumpButton()
handlePumpButton ==
    /\ main.irq
    /\ LET currTime == millis
           pushButtState == main.PIN_PUMP_BUTTON
       IN IF MainDebounced(currTime, main.lastEdgeTime)
          THEN main' = [main EXCEPT !.irq = FALSE,
                                    !.lastEdgeTime = MainStoredTime(currTime),
                                    !.PIN_RELAY = Not(pushButtState),
                                    !.PIN_LED_G = pushButtState,
                                    !.accepted = TRUE,
                                    !.lastAccept = currTime,
                                    !.forced = (pushButtState = HIGH)]
          ELSE main' = [main EXCEPT !.irq = FALSE,
                                    !.forced = (@ /\ pushButtState = HIGH)]
    /\ UNCHANGED << millis, slp, btn, rly, roll >>

\* loop(), line 148: if (isSoilDry()); line 161 in the else branch
MainLoopCheck ==
    /\ main.pc = "loop"
    /\ ~main.irq
    /\ Val(millis) <= MaxUptimeMain
    /\ \E valSensor \in SensorValues :
          IF isSoilDry(valSensor)
          THEN main' = [main EXCEPT !.pc = "led_y_on"]
          ELSE main' = [main EXCEPT !.PIN_LED_Y = LOW, !.pc = "poll"]
    /\ UNCHANGED << millis, slp, btn, rly, roll >>

\* line 154: digitalWrite(PIN_LED_Y, HIGH)
MainLedYOn ==
    /\ main.pc = "led_y_on"
    /\ ~main.irq
    /\ main' = [main EXCEPT !.PIN_LED_Y = HIGH, !.pc = "pump_on"]
    /\ UNCHANGED << millis, slp, btn, rly, roll >>

\* actionPump(toActivate): the level written to the active-low relay
actionPump(toActivate) == IF toActivate THEN LOW ELSE HIGH

\* line 155: actionPump(true)
MainPumpOn ==
    /\ main.pc = "pump_on"
    /\ ~main.irq
    /\ main' = [main EXCEPT !.PIN_RELAY = actionPump(TRUE), !.pc = "led_g_on"]
    /\ UNCHANGED << millis, slp, btn, rly, roll >>

\* lines 156-157: digitalWrite(PIN_LED_G, HIGH), delay(5000) is entered
MainLedGOn ==
    /\ main.pc = "led_g_on"
    /\ ~main.irq
    /\ main' = [main EXCEPT !.PIN_LED_G = HIGH, !.pc = "watering",
                            !.delayStart = millis, !.delayMs = WateringMs]
    /\ UNCHANGED << millis, slp, btn, rly, roll >>

\* line 157: delay(5000) returns
MainWateringEnd ==
    /\ main.pc = "watering"
    /\ ~main.irq
    /\ millis' = ULongAdd(main.delayStart, ULong(main.delayMs))
    /\ main' = [main EXCEPT !.pc = "pump_off"]
    /\ UNCHANGED << slp, btn, rly, roll >>

\* line 158: actionPump(false)
MainPumpOff ==
    /\ main.pc = "pump_off"
    /\ ~main.irq
    /\ main' = [main EXCEPT !.PIN_RELAY = actionPump(FALSE), !.pc = "led_g_off"]
    /\ UNCHANGED << millis, slp, btn, rly, roll >>

\* line 159: digitalWrite(PIN_LED_G, LOW)
MainLedGOff ==
    /\ main.pc = "led_g_off"
    /\ ~main.irq
    /\ main' = [main EXCEPT !.PIN_LED_G = LOW, !.pc = "poll"]
    /\ UNCHANGED << millis, slp, btn, rly, roll >>

\* line 169: delay(POLLING_PERIOD_M * 3600) is entered
MainPollBegin ==
    /\ main.pc = "poll"
    /\ ~main.irq
    /\ main' = [main EXCEPT !.pc = "polling",
                            !.delayStart = millis, !.delayMs = PollingDelayMs]
    /\ UNCHANGED << millis, slp, btn, rly, roll >>

\* line 169: the delay returns, loop() is called again
MainPollEnd ==
    /\ main.pc = "polling"
    /\ ~main.irq
    /\ millis' = ULongAdd(main.delayStart, ULong(main.delayMs))
    /\ main' = [main EXCEPT !.pc = "loop"]
    /\ UNCHANGED << slp, btn, rly, roll >>

\* time passes inside a delay()
MainTick ==
    /\ main.pc \in MainDelays
    /\ ~main.irq
    /\ Val(ULongSub(millis, main.delayStart)) + TickMs <= MaxGap
    /\ Val(ULongSub(millis, main.delayStart)) + TickMs < main.delayMs
    /\ millis' = ULongAdd(millis, ULong(TickMs))
    /\ UNCHANGED << main, slp, btn, rly, roll >>

MainNext ==
    \/ MainSetup
    \/ MainButtonEdge
    \/ handlePumpButton
    \/ MainLoopCheck
    \/ MainLedYOn
    \/ MainPumpOn
    \/ MainLedGOn
    \/ MainWateringEnd
    \/ MainPumpOff
    \/ MainLedGOff
    \/ MainPollBegin
    \/ MainPollEnd
    \/ MainTick

(* Properties of main.ino *)

\* the positions of loop() from actionPump(true) to actionPump(false)
MainWateringSequence == {"led_g_on", "watering", "pump_off"}

\* C3: as long as the push button is not touched, after setup() the relay pin
\* is LOW (pump on) exactly during the 5 s watering of an iteration that
\* found the soil dry, and HIGH (pump off) at every other moment.
C3_PumpOnlyWhileWatering ==
    (main.pc # "setup" /\ ~main.touched) =>
        (main.PIN_RELAY = LOW <=> main.pc \in MainWateringSequence)

\* C4: from the moment handlePumpButton accepts a press until it runs for
\* the release of the button, the relay pin stays LOW (pump on).
C4_ButtonForcesPump == main.forced => main.PIN_RELAY = LOW

\* C6: a run of handlePumpButton at most DEBOUNCE_DELAY ms after the last
\* accepted edge changes neither PIN_RELAY nor PIN_LED_G nor lastEdgeTime,
\* whatever the uptime.
C6_DebounceAtEveryUptime ==
    [][ ( /\ main.irq /\ ~main'.irq
          /\ main.accepted
          /\ ~ULongGreater(ULongSub(millis, main.lastAccept), ULong(DEBOUNCE_DELAY)) )
        => ( /\ main'.PIN_RELAY = main.PIN_RELAY
             /\ main'.PIN_LED_G = main.PIN_LED_G
             /\ main'.lastEdgeTime = main.lastEdgeTime ) ]_vars

\* C7: after setup(), whenever loop() is not between a relay write and the
\* green-LED write that follows it, PIN_LED_G is HIGH exactly when PIN_RELAY
\* is LOW.
C7_GreenLedShowsPump ==
    main.pc \notin {"setup", "led_g_on", "led_g_off"} =>
        (main.PIN_LED_G = HIGH <=> main.PIN_RELAY = LOW)

\* C8: the argument of the polling delay() is POLLING_PERIOD_M minutes in
\* milliseconds (1 800 000 ms).
C8_PollingPeriodInMinutes ==
    main.pc = "polling" => main.delayMs = POLLING_PERIOD_M * 60 * 1000

---------------------------------------------------------------------------
(* test_sleep_mode_with_interrupt.ino (built with DEBUG_MODE, without *)
(* USE_INTERNAL_PULLUP_PULLDOWN, as the file defines them)            *)

\* PIN_BUTTON_WAKEUP_ESP32 is GPIO_NUM_9
PIN_BUTTON_WAKEUP_ESP32 == 9
SLEEP_DEBOUNCE_DELAY == 50
SetupDelayMs == 1000
SleepLoopDelayMs == 2000
SleepIsrDelayMs == 2000
\* the for loop of init_rtc runs while i < RtcLoopEnd
RtcLoopEnd == 22

\* loop() of the sleep test starts no new iteration after this uptime
MaxUptimeSleep == 3000

ESP_OK == "ESP_OK"
ESP_ERR_INVALID_ARG == "ESP_ERR_INVALID_ARG"
ESP_ERR_INVALID_STATE == "ESP_ERR_INVALID_STATE"
\* results of rtc_gpio_deinit and rtc_gpio_init
RtcGpioResults == {ESP_OK, ESP_ERR_INVALID_ARG}
\* results of esp_sleep_enable_ext0_wakeup
Ext0Results == {ESP_OK, ESP_ERR_INVALID_ARG, ESP_ERR_INVALID_STATE}

\* the RTC IOs according to the header NOTE: pins 0-14 and 17-21
RtcPins == (0..14) \cup (17..21)
\* rtc_gpio_is_valid_gpio(gpio)
rtc_gpio_is_valid_gpio(gpio) == gpio \in RtcPins
\* the RTC links survive a deep sleep and are unknown at power-on: the pins
\* a boot may find linked
LinkedAtBoot == SUBSET {0, 9, 21}

\* variant of SkipsPin: GPIO16 is not skipped
SkipsPin_Only15(i) == i = 15

\* init_rtc, line 203: if (i == 15 || i == 16) continue
SkipsPin(i) == i = 15 \/ i = 16

\* variant of SleepDebounced: the operands of the subtraction are swapped
SleepDebounced_Swapped(currTime, lastEdge) ==
    ULongGreater(ULongSub(lastEdge, currTime), ULong(SLEEP_DEBOUNCE_DELAY))

\* the debounce test of handleSleepButton, on unsigned long
SleepDebounced(currTime, lastEdge) ==
    ULongGreater(ULongSub(currTime, lastEdge), ULong(SLEEP_DEBOUNCE_DELAY))

\* print_wakeup_reason(): the line printed for a wake-up cause
WakeupReasonLine(cause) ==
    IF cause = "ESP_SLEEP_WAKEUP_EXT0"
    THEN << "Wakeup caused by external signal using RTC_IO" >>
    ELSE << "Wakeup was not caused by deep sleep: ", cause >>

\* the state of the board at the start of setup(), for a wake-up cause and
\* the levels and RTC links found at that moment
SleepBoot(cause, button, linked) ==
    [ pc               |-> "setup",
      wakeup_reason    |-> cause,     \* esp_sleep_get_wakeup_cause()
      PIN_BUTTON_SLEEP |-> button,
      PIN_LED          |-> LOW,
      irq              |-> FALSE,     \* a rising edge waits for handleSleepButton
      lastEdgeTime     |-> ULong(0),
      alreadySaidHello |-> FALSE,
      i                |-> 0,         \* init_rtc: loop counter
      esp_err          |-> "unset",   \* init_rtc: local esp_err
      rtcLinked        |-> linked,    \* the GPIOs linked to the RTC module
      ext0             |-> {},        \* the EXT0 wake source, once armed
      Serial           |-> << >>,     \* the last line sent to the serial port
      delayStart       |-> ULong(0),
      delayMs          |-> 0,
      \* history variables of this boot
      calls            |-> << >>,     \* the vendor calls init_rtc has made
      allOk            |-> TRUE,      \* every vendor call returned ESP_OK
      initRet          |-> "unset",   \* what rtc_gpio_init returned
      bounced          |-> FALSE,     \* the handler dropped an edge as a bounce
      readLow          |-> FALSE,     \* the handler accepted an edge and read LOW
      ledWrites        |-> 0,         \* how often PIN_LED was written HIGH
      loops            |-> 0 ]        \* the iterations of loop() started

SleepInit ==
    \E linked \in LinkedAtBoot :
        slp = SleepBoot("ESP_SLEEP_WAKEUP_UNDEFINED", LOW, linked)

\* setup(), lines 83-95: serial port, delay(1000), print_wakeup_reason(),
\* pin modes, attachInterrupt(..., RISING)
SleepSetup ==
    /\ slp.pc = "setup"
    /\ millis' = ULongAdd(millis, ULong(SetupDelayMs))
    /\ slp' = [slp EXCEPT !.Serial = WakeupReasonLine(slp.wakeup_reason),
                          !.pc = "deinit"]
    /\ UNCHANGED << main, btn, rly, roll >>

\* the user presses or releases the sleep button; once the interrupt is
\* attached (mode RISING) a rising edge requests handleSleepButton
SleepButtonEdge ==
    /\ slp' = [slp EXCEPT !.PIN_BUTTON_SLEEP = Not(@),
                          !.irq = IF slp.pc \notin {"setup", "asleep"}
                                     /\ slp.PIN_BUTTON_SLEEP = LOW
                                  THEN TRUE ELSE @]
    /\ UNCHANGED << millis, main, btn, rly, roll >>

\* handleSleepButton()
handleSleepButton ==
    /\ slp.irq
    /\ slp.pc # "asleep"
    /\ LET currTime == millis
       IN IF SleepDebounced(currTime, slp.lastEdgeTime)
          THEN IF slp.PIN_BUTTON_SLEEP = LOW
               THEN /\ slp' = [slp EXCEPT !.irq = FALSE, !.lastEdgeTime = currTime,
                                          !.readLow = TRUE]
                    /\ UNCHANGED << millis, rly, roll >>
               ELSE \* two lines printed, delay(2000), esp_deep_sleep_start()
                    /\ slp' = [slp EXCEPT !.irq = FALSE, !.lastEdgeTime = currTime,
                                 !.Serial = << "[handleSleepButton()] Time to go to bed..." >>,
                                 !.pc = "asleep"]
                    /\ millis' = ULongAdd(millis, ULong(SleepIsrDelayMs))
          ELSE /\ slp' = [slp EXCEPT !.irq = FALSE, !.bounced = TRUE]
               /\ UNCHANGED << millis, rly, roll >>
    /\ UNCHANGED << main, btn, rly, roll >>

\* variant of SleepDeinitStep: a pin whose rtc_gpio_deinit failed is tried
\* a second time
SleepDeinitStep_Retry ==
    /\ slp.pc = "deinit"
    /\ ~slp.irq
    /\ LET i == slp.i
           next == IF i + 1 < RtcLoopEnd THEN "deinit" ELSE "rtc_init"
           first == slp.calls = << >> \/ slp.calls[Len(slp.calls)].gpio # i
       IN IF SkipsPin(i)
          THEN slp' = [slp EXCEPT !.i = i + 1, !.pc = next]
          ELSE \E ret \in RtcGpioResults :
                 slp' = [slp EXCEPT
                   !.i = IF ret # ESP_OK /\ first THEN i ELSE i + 1,
                   !.pc = IF ret # ESP_OK /\ first THEN "deinit" ELSE next,
                   !.esp_err = ret,
                   !.rtcLinked = IF ret = ESP_OK THEN @ \ {i} ELSE @,
                   !.calls = Append(@, [fn |-> "rtc_gpio_deinit", gpio |-> i]),
                   !.allOk = (@ /\ ret = ESP_OK)]
    /\ UNCHANGED << millis, main, btn, rly, roll >>

\* init_rtc(), lines 202-211: one iteration of the for loop
SleepDeinitStep ==
    /\ slp.pc = "deinit"
    /\ ~slp.irq
    /\ LET i == slp.i
           next == IF i + 1 < RtcLoopEnd THEN "deinit" ELSE "rtc_init"
       IN IF SkipsPin(i)
          THEN slp' = [slp EXCEPT !.i = i + 1, !.pc = next]
          ELSE \E ret \in RtcGpioResults :
                 slp' = [slp EXCEPT
                   !.i = i + 1,
                   !.pc = next,
                   !.esp_err = ret,
                   !.rtcLinked = IF ret = ESP_OK THEN @ \ {i} ELSE @,
                   !.Serial = IF ret = ESP_OK
                              THEN << "Successfully unlinked RTC_GPIO", i, " from RTC." >>
                              ELSE << "Failed to unlink RTC_GPIO", i, " from RTC." >>,
                   !.calls = Append(@, [fn |-> "rtc_gpio_deinit", gpio |-> i]),
                   !.allOk = (@ /\ ret = ESP_OK)]
    /\ UNCHANGED << millis, main, btn, rly, roll >>

\* line 213: rtc_gpio_init(PIN_BUTTON_WAKEUP_ESP32); the result is dropped
SleepRtcInit ==
    /\ slp.pc = "rtc_init"
    /\ ~slp.irq
    /\ \E ret \in RtcGpioResults :
         slp' = [slp EXCEPT
           !.pc = "link_msg",
           !.rtcLinked = IF ret = ESP_OK THEN @ \cup {PIN_BUTTON_WAKEUP_ESP32} ELSE @,
           !.calls = Append(@, [fn |-> "rtc_gpio_init", gpio |-> PIN_BUTTON_WAKEUP_ESP32]),
           !.allOk = (@ /\ ret = ESP_OK),
           !.initRet = ret]
    /\ UNCHANGED << millis, main, btn, rly, roll >>

\* lines 215-219: the message about the link of GPIO9
SleepLinkMsg ==
    /\ slp.pc = "link_msg"
    /\ ~slp.irq
    /\ slp' = [slp EXCEPT
         !.pc = "valid_check",
         !.Serial = IF slp.esp_err = ESP_OK
                    THEN << "Successfully linked RTC_GPIO9 to RTC." >>
                    ELSE << "Failed to link RTC_GPIO9 to RTC." >>]
    /\ UNCHANGED << millis, main, btn, rly, roll >>

\* lines 224-226: if (!rtc_gpio_is_valid_gpio(PIN_BUTTON_WAKEUP_ESP32))
SleepValidCheck ==
    /\ slp.pc = "valid_check"
    /\ ~slp.irq
    /\ slp' = [slp EXCEPT
         !.pc = "ext0",
         !.Serial = IF ~rtc_gpio_is_valid_gpio(PIN_BUTTON_WAKEUP_ESP32)
                    THEN << "GPIO9 cannot be used for RTC" >> ELSE @]
    /\ UNCHANGED << millis, main, btn, rly, roll >>

\* line 252: esp_err = esp_sleep_enable_ext0_wakeup(PIN_BUTTON_WAKEUP_ESP32, 1)
SleepEnableExt0 ==
    /\ slp.pc = "ext0"
    /\ ~slp.irq
    /\ \E ret \in Ext0Results :
         slp' = [slp EXCEPT
           !.pc = "ext0_msg",
           !.esp_err = ret,
           !.ext0 = IF ret = ESP_OK
                    THEN {[gpio |-> PIN_BUTTON_WAKEUP_ESP32, level |-> HIGH]} ELSE @,
           !.calls = Append(@, [fn |-> "esp_sleep_enable_ext0_wakeup",
                                gpio |-> PIN_BUTTON_WAKEUP_ESP32]),
           !.allOk = (@ /\ ret = ESP_OK)]
    /\ UNCHANGED << millis, main, btn, rly, roll >>

\* lines 254-267: the message about the wake-up source; init_rtc() and
\* setup() return
SleepExt0Msg ==
    /\ slp.pc = "ext0_msg"
    /\ ~slp.irq
    /\ slp' = [slp EXCEPT
         !.pc = "loop",
         !.Serial =
            CASE slp.esp_err = ESP_OK ->
                   << "Successfully set up the wake up source" >>
              [] slp.esp_err = ESP_ERR_INVALID_ARG ->
                   << "Failed to set up the wake up source: the selected GPIO is not an RTC GPIO, or the mode is invalid" >>
              [] slp.esp_err = ESP_ERR_INVALID_STATE ->
                   << "Failed to set up the wake up source: wakeup triggers conflict" >>
              [] OTHER ->
                   << "Failed to set up the wake up source: unknown reason" >>]
    /\ UNCHANGED << millis, main, btn, rly, roll >>

\* loop(), lines 110-121: say hello once, then delay(2000) is entered
SleepLoop ==
    /\ slp.pc = "loop"
    /\ ~slp.irq
    /\ Val(millis) <= MaxUptimeSleep
    /\ IF ~slp.alreadySaidHello
       THEN slp' = [slp EXCEPT
              !.loops = @ + 1,
              !.alreadySaidHello = ~@,
              !.Serial = << "[loop()] Hello World! - As a proof that I am awake I will light a bulb." >>,
              !.PIN_LED = HIGH,
              !.ledWrites = @ + 1,
              !.pc = "loop_delay", !.delayStart = millis, !.delayMs = SleepLoopDelayMs]
       ELSE slp' = [slp EXCEPT
              !.loops = @ + 1,
              !.Serial = << "[loop()] *Hmmm... did I already say Hi?* ", slp.alreadySaidHello >>,
              !.pc = "loop_delay", !.delayStart = millis, !.delayMs = SleepLoopDelayMs]
    /\ UNCHANGED << millis, main, btn, rly, roll >>

\* line 121: delay(2000) returns
SleepLoopDelayEnd ==
    /\ slp.pc = "loop_delay"
    /\ ~slp.irq
    /\ millis' = ULongAdd(slp.delayStart, ULong(slp.delayMs))
    /\ slp' = [slp EXCEPT !.pc = "loop"]
    /\ UNCHANGED << main, btn, rly, roll >>

\* time passes inside the delay(2000) of loop()
SleepTick ==
    /\ slp.pc = "loop_delay"
    /\ ~slp.irq
    /\ Val(ULongSub(millis, slp.delayStart)) + TickMs <= MaxGap
    /\ Val(ULongSub(millis, slp.delayStart)) + TickMs < slp.delayMs
    /\ millis' = ULongAdd(millis, ULong(TickMs))
    /\ UNCHANGED << main, slp, btn, rly, roll >>

\* variant of SleepWakeUp: alreadySaidHello is kept over the deep sleep, as
\* a variable placed in RTC memory would be
SleepWakeUp_Retained ==
    /\ slp.pc = "asleep"
    /\ slp.ext0 # {}
    /\ millis' = ULong(0)
    /\ slp' = [SleepBoot("ESP_SLEEP_WAKEUP_EXT0", slp.PIN_BUTTON_SLEEP, slp.rtcLinked)
                 EXCEPT !.alreadySaidHello = slp.alreadySaidHello]
    /\ UNCHANGED << main, btn, rly, roll >>

\* deep sleep ends when the armed EXT0 source sees its level on its pin:
\* the chip restarts at setup(); only the RTC domain keeps its state
SleepWakeUp ==
    /\ slp.pc = "asleep"
    /\ slp.ext0 # {}
    /\ millis' = ULong(0)
    /\ slp' = SleepBoot("ESP_SLEEP_WAKEUP_EXT0", slp.PIN_BUTTON_SLEEP, slp.rtcLinked)
    /\ UNCHANGED << main, btn, rly, roll >>

SleepNext ==
    \/ SleepSetup
    \/ SleepButtonEdge
    \/ handleSleepButton
    \/ SleepDeinitStep
    \/ SleepRtcInit
    \/ SleepLinkMsg
    \/ SleepValidCheck
    \/ SleepEnableExt0
    \/ SleepExt0Msg
    \/ SleepLoop
    \/ SleepLoopDelayEnd
    \/ SleepTick
    \/ SleepWakeUp

\* init_rtc() on its own: the state in which setup() calls it (line 98), on
\* a power-on boot or a wake-up, and its steps up to its return
InitRtcInit ==
    \E cause \in {"ESP_SLEEP_WAKEUP_UNDEFINED", "ESP_SLEEP_WAKEUP_EXT0"},
       linked \in LinkedAtBoot :
        slp = [SleepBoot(cause, LOW, linked) EXCEPT
                 !.Serial = WakeupReasonLine(cause), !.pc = "deinit"]

InitRtcNext ==
    \/ SleepDeinitStep
    \/ SleepRtcInit
    \/ SleepLinkMsg
    \/ SleepValidCheck
    \/ SleepEnableExt0
    \/ SleepExt0Msg

(* Properties of test_sleep_mode_with_interrupt.ino *)

\* init_rtc() has called fn in this boot
SleepCalled(fn) == \E k \in DOMAIN slp.calls : slp.calls[k].fn = fn
\* the positions of the calls of fn on gpio
SleepCallsOf(fn, gpio) ==
    {k \in DOMAIN slp.calls : slp.calls[k] = [fn |-> fn, gpio |-> gpio]}
\* init_rtc() and setup() have returned and the board is awake
SleepInitReturned == slp.pc \in {"loop", "loop_delay"}

\* C1: the board enters deep sleep only after esp_sleep_enable_ext0_wakeup
\* has been called in the same boot.
C1_SleepOnlyAfterWakeArmed ==
    slp.pc = "asleep" => SleepCalled("esp_sleep_enable_ext0_wakeup")

\* C2: the board goes to sleep only inside a run of handleSleepButton in
\* which millis() - lastEdgeTime > 50 and PIN_BUTTON_SLEEP reads HIGH; a run
\* within 50 ms of the last accepted edge, or one that reads LOW, does not
\* enter deep sleep.
C2_SleepOnlyOnDebouncedRisingEdge ==
    [][ /\ (slp.pc # "asleep" /\ slp'.pc = "asleep") =>
             /\ slp.irq /\ ~slp'.irq
             /\ ULongGreater(ULongSub(millis, slp.lastEdgeTime), ULong(50))
             /\ slp.PIN_BUTTON_SLEEP = HIGH
        /\ ( /\ slp.irq /\ ~slp'.irq
             /\ \/ ~ULongGreater(ULongSub(millis, slp.lastEdgeTime), ULong(50))
                \/ slp.PIN_BUTTON_SLEEP = LOW )
           => slp'.pc # "asleep" ]_vars

\* C2, witness: the board sleeps after the handler has dropped a bounce and
\* has accepted an edge that read LOW
C2_Witness == slp.pc = "asleep" /\ slp.bounced /\ slp.readLow

\* C9: when init_rtc() has returned, rtc_gpio_deinit was called exactly once
\* for each of the 20 pins 0..14, 17..21 and never for 15 or 16, every one
\* of these calls precedes the single rtc_gpio_init(GPIO9), and when every
\* vendor call succeeded GPIO9 is the only pin linked to the RTC module and
\* EXT0 is armed on GPIO9 with level HIGH.
C9_OnlyWakePinLinked ==
    SleepInitReturned =>
        /\ \A p \in (0..14) \cup (17..21) :
              Cardinality(SleepCallsOf("rtc_gpio_deinit", p)) = 1
        /\ \A p \in {15, 16} : SleepCallsOf("rtc_gpio_deinit", p) = {}
        /\ Cardinality({k \in DOMAIN slp.calls : slp.calls[k].fn = "rtc_gpio_deinit"}) = 20
        /\ Cardinality({k \in DOMAIN slp.calls : slp.calls[k].fn = "rtc_gpio_init"}) = 1
        /\ \A k \in SleepCallsOf("rtc_gpio_init", 9) :
              \A d \in DOMAIN slp.calls :
                  slp.calls[d].fn = "rtc_gpio_deinit" => d < k
        /\ Cardinality(SleepCallsOf("rtc_gpio_init", 9)) = 1
        /\ slp.allOk => /\ slp.rtcLinked = {9}
                        /\ slp.ext0 = {[gpio |-> 9, level |-> 1]}

\* C9, witness: init_rtc() has returned after 22 successful vendor calls
C9_Witness ==
    /\ SleepInitReturned /\ slp.allOk /\ Len(slp.calls) = 22
    /\ slp.rtcLinked = {9} /\ slp.ext0 # {}

\* C10: the line printed after rtc_gpio_init(GPIO9) is "Successfully linked
\* RTC_GPIO9 to RTC." exactly when rtc_gpio_init returned ESP_OK and "Failed
\* to link RTC_GPIO9 to RTC." exactly when it returned an error.
C10_LinkMessageReportsInit ==
    slp.pc = "valid_check" =>
        /\ slp.Serial = << "Successfully linked RTC_GPIO9 to RTC." >>
              <=> slp.initRet = ESP_OK
        /\ slp.Serial = << "Failed to link RTC_GPIO9 to RTC." >>
              <=> slp.initRet # ESP_OK

\* the vendor calls of init_rtc() in the order of its text: rtc_gpio_deinit
\* on pins 0..14 and 17..21, rtc_gpio_init on GPIO9, then
\* esp_sleep_enable_ext0_wakeup on GPIO9
InitRtcCallOrder ==
    [k \in 1..22 |->
        IF k <= 15 THEN [fn |-> "rtc_gpio_deinit", gpio |-> k - 1]
        ELSE IF k <= 20 THEN [fn |-> "rtc_gpio_deinit", gpio |-> k + 1]
        ELSE IF k = 21 THEN [fn |-> "rtc_gpio_init", gpio |-> 9]
        ELSE [fn |-> "esp_sleep_enable_ext0_wakeup", gpio |-> 9]]

\* C11: whatever the vendor calls return, the calls init_rtc() has made are
\* at every moment the first ones of the fixed order deinit(0..14, 17..21),
\* init(GPIO9), enable_ext0_wakeup(GPIO9, 1), none repeated and none left
\* out; when init_rtc() returns it has made every one of them, the wake
\* level being HIGH if the source was armed; and init_rtc() does return.
C11_InitRtcLinearSequence ==
    /\ [](/\ Len(slp.calls) <= Len(InitRtcCallOrder)
          /\ slp.calls = SubSeq(InitRtcCallOrder, 1, Len(slp.calls))
          /\ \A w \in slp.ext0 : w = [gpio |-> 9, level |-> 1])
    /\ [](slp.pc = "loop" => slp.calls = InitRtcCallOrder)
    /\ <>(slp.pc = "loop")

\* C11, witness: init_rtc() has returned after rtc_gpio_deinit,
\* rtc_gpio_init and esp_sleep_enable_ext0_wakeup have all failed
C11_Witness ==
    /\ slp.pc = "loop"
    /\ Len(slp.calls) = 22
    /\ slp.initRet # ESP_OK
    /\ slp.esp_err = ESP_ERR_INVALID_STATE
    /\ slp.ext0 = {}
    /\ 0 \in slp.rtcLinked /\ 21 \in slp.rtcLinked

\* C14: every boot, at power-on or on waking from deep sleep, starts
\* setup() with lastEdgeTime = 0 and alreadySaidHello = false; while the
\* board is awake alreadySaidHello never goes from true to false; PIN_LED
\* is written HIGH at most once per awake session, and only by the first
\* iteration of loop() of that session.
C14_NoStateAcrossSleep ==
    /\ [](slp.pc = "setup" =>
            /\ Val(slp.lastEdgeTime) = 0
            /\ slp.alreadySaidHello = FALSE
            /\ slp.ledWrites = 0 /\ slp.loops = 0)
    /\ [][(slp.pc = "asleep" /\ slp'.pc # "asleep") => slp'.pc = "setup"]_vars
    /\ [][(slp.pc # "asleep" /\ slp.alreadySaidHello) => slp'.alreadySaidHello]_vars
    /\ [](slp.ledWrites <= 1)
    /\ [][(slp.pc # "asleep" /\ slp'.ledWrites # slp.ledWrites) =>
            /\ slp.loops = 0 /\ slp'.loops = 1
            /\ slp'.ledWrites = slp.ledWrites + 1
            /\ slp'.PIN_LED = 1]_vars

\* C14, witness: the board has slept after saying hello, has woken up, and
\* is in the second iteration of loop() of the new session
C14_Witness ==
    /\ slp.wakeup_reason = "ESP_SLEEP_WAKEUP_EXT0"
    /\ slp.loops = 2
    /\ slp.alreadySaidHello
    /\ slp.ledWrites = 1
    /\ slp.PIN_LED = 1

---------------------------------------------------------------------------
(* Test_command_relay_with_push_button.ino *)

\* volatile unsigned long debounceDelay = 50; never written
debounceDelay == 50

\* the model follows the relay test up to this uptime
MaxUptimeButton == 150

\* variant of ButtonDebounced: lastEdgeTime is kept in an unsigned short, as
\* main.ino keeps it
ButtonDebounced_Short(currTime, lastEdge) ==
    ULongGreater(ULongSub(currTime, ULong(UShort(lastEdge))), ULong(debounceDelay))

\* variant of ButtonDebounced: an edge exactly debounceDelay ms after the
\* last accepted one passes
ButtonDebounced_AtLeast(currTime, lastEdge) ==
    ~ULongGreater(ULong(debounceDelay), ULongSub(currTime, lastEdge))

\* the debounce test of handleButton, on unsigned long
ButtonDebounced(currTime, lastEdge) ==
    ULongGreater(ULongSub(currTime, lastEdge), ULong(debounceDelay))

ButtonInit ==
    \E relay0 \in Levels :
      btn = [ pc              |-> "setup",
              PIN_PUSH_BUTTON |-> LOW,
              PIN_RELAY       |-> relay0,   \* not written before line 67
              irq             |-> FALSE,    \* an edge waits for handleButton
              lastEdgeTime    |-> ULong(0),
              \* history variable
              early           |-> FALSE ]   \* handleButton ran in the first
                                            \* debounceDelay ms of uptime

\* setup(), lines 59-62: pin modes, attachInterrupt(..., CHANGE)
ButtonSetupAttach ==
    /\ btn.pc = "setup"
    /\ btn' = [btn EXCEPT !.pc = "relay_high"]
    /\ UNCHANGED << millis, main, slp, rly, roll >>

\* setup(), lines 64-67: Serial.begin(9600), digitalWrite(PIN_RELAY, HIGH)
ButtonSetupRelay ==
    /\ btn.pc = "relay_high"
    /\ ~btn.irq
    /\ btn' = [btn EXCEPT !.PIN_RELAY = HIGH, !.pc = "loop"]
    /\ UNCHANGED << millis, main, slp, rly, roll >>

\* the user presses or releases the push button (the button is not touched
\* in the instant between power-on and attachInterrupt): the edge requests
\* handleButton (mode CHANGE)
ButtonEdge ==
    /\ btn.pc # "setup"
    /\ btn' = [btn EXCEPT !.PIN_PUSH_BUTTON = Not(@), !.irq = TRUE]
    /\ UNCHANGED << millis, main, slp, rly, roll >>

\* handleButton()
handleButton ==
    /\ btn.irq
    /\ LET currTime == millis
           pushButtState == btn.PIN_PUSH_BUTTON
           early == btn.early \/ ~ULongGreater(currTime, ULong(debounceDelay))
       IN IF ButtonDebounced(currTime, btn.lastEdgeTime)
          THEN btn' = [btn EXCEPT !.irq = FALSE,
                                  !.lastEdgeTime = currTime,
                                  !.PIN_RELAY = Not(pushButtState),
                                  !.early = early]
          ELSE btn' = [btn EXCEPT !.irq = FALSE, !.early = early]
    /\ UNCHANGED << millis, main, slp, rly, roll >>

\* time passes while the empty loop() spins
ButtonTick ==
    /\ btn.pc = "loop"
    /\ ~btn.irq
    /\ Val(millis) + TickMs <= MaxUptimeButton
    /\ millis' = ULongAdd(millis, ULong(TickMs))
    /\ UNCHANGED << main, slp, btn, rly, roll >>

ButtonNext ==
    \/ ButtonSetupAttach
    \/ ButtonSetupRelay
    \/ ButtonEdge
    \/ handleButton
    \/ ButtonTick

(* Properties of Test_command_relay_with_push_button.ino *)

\* C5: after any sequence of button edges, each one handled by handleButton
\* (none of them in the first 50 ms after power-on), once every edge has
\* been handled the relay pin is the inverse of the button level: LOW
\* (active) exactly when the button is pressed.
C5_RelayFollowsButton ==
    (btn.pc = "loop" /\ ~btn.irq /\ ~btn.early) =>
        btn.PIN_RELAY = Not(btn.PIN_PUSH_BUTTON)

\* C12: a run of handleButton at time t with t - lastEdgeTime <= 50 leaves
\* lastEdgeTime and the relay pin as they are; a run with
\* t - lastEdgeTime > 50 sets lastEdgeTime to t and the relay pin to the
\* inverse of the button level at that moment; and once setup() has written
\* the relay pin HIGH, only a run of handleButton changes it.
C12_HandleButtonFrame ==
    [][ /\ (btn.irq /\ ~btn'.irq) =>
             IF ULongGreater(ULongSub(millis, btn.lastEdgeTime), ULong(50))
             THEN /\ btn'.lastEdgeTime = millis
                  /\ btn'.PIN_RELAY = 1 - btn.PIN_PUSH_BUTTON
             ELSE /\ btn'.lastEdgeTime = btn.lastEdgeTime
                  /\ btn'.PIN_RELAY = btn.PIN_RELAY
        /\ (btn.pc = "loop" /\ btn'.PIN_RELAY # btn.PIN_RELAY) =>
             (btn.irq /\ ~btn'.irq)
        /\ (btn.pc = "relay_high" /\ btn'.pc = "loop") => btn'.PIN_RELAY = 1 ]_vars

\* C12, witness: handleButton has accepted a press later than 50 ms after
\* power-on and has then dropped the release, which came within 50 ms
C12_Witness ==
    /\ btn.pc = "loop" /\ ~btn.irq
    /\ ULongGreater(btn.lastEdgeTime, ULong(50))
    /\ ~ULongGreater(ULongSub(millis, btn.lastEdgeTime), ULong(50))
    /\ btn.PIN_RELAY = 0
    /\ btn.PIN_PUSH_BUTTON = 0

---------------------------------------------------------------------------
(* Test_command_relay.ino *)

\* line 21: delay(10000)
RelayDelayMs == 10000

\* loop() of the relay toggle test starts no new iteration after this uptime
MaxUptimeRelay == 400000

\* variant of RelayInvert: the bitwise complement of the byte
RelayInvert_Bitwise(state) == 255 - state

\* line 17: !relayState, converted back to byte: 1 for 0, 0 for any other
\* value
RelayInvert(state) == IF state = 0 THEN 1 ELSE 0

\* digitalWrite(pin, val): the pin goes LOW for 0 and HIGH for any other
\* value
PinLevel(val) == IF val = 0 THEN LOW ELSE HIGH

RelayInit ==
    \E relay0 \in Levels :
      rly = [ pc          |-> "setup",
              relayState  |-> HIGH,      \* volatile byte relayState = HIGH
              PIN_RELAY   |-> relay0,    \* not written before line 20
              delayStart  |-> ULong(0),
              \* history variables
              iterations  |-> 0,         \* completed passes of lines 17-20
              pinWrites   |-> << >> ]    \* the levels written to PIN_RELAY

\* setup(): pinMode(PIN_RELAY, OUTPUT), Serial.begin(9600)
RelaySetup ==
    /\ rly.pc = "setup"
    /\ rly' = [rly EXCEPT !.pc = "loop"]
    /\ UNCHANGED << millis, main, slp, btn, roll >>

\* loop(), lines 17-21: invert relayState, print it, write it to PIN_RELAY,
\* enter delay(10000)
RelayLoop ==
    /\ rly.pc = "loop"
    /\ Val(millis) <= MaxUptimeRelay
    /\ LET state == RelayInvert(rly.relayState)
       IN rly' = [rly EXCEPT !.relayState = state,
                             !.PIN_RELAY = PinLevel(state),
                             !.pc = "delay",
                             !.delayStart = millis,
                             !.iterations = @ + 1,
                             !.pinWrites = Append(@, PinLevel(state))]
    /\ UNCHANGED << millis, main, slp, btn, roll >>

\* line 21: delay(10000) returns
RelayDelayEnd ==
    /\ rly.pc = "delay"
    /\ millis' = ULongAdd(rly.delayStart, ULong(RelayDelayMs))
    /\ rly' = [rly EXCEPT !.pc = "loop"]
    /\ UNCHANGED << main, slp, btn, roll >>

\* time passes inside delay(10000)
RelayTick ==
    /\ rly.pc = "delay"
    /\ Val(ULongSub(millis, rly.delayStart)) + TickMs <= MaxGap
    /\ millis' = ULongAdd(millis, ULong(TickMs))
    /\ UNCHANGED << main, slp, btn, rly, roll >>

RelayNext ==
    \/ RelaySetup
    \/ RelayLoop
    \/ RelayDelayEnd
    \/ RelayTick

(* Properties of Test_command_relay.ino *)

\* C13: once loop() has run lines 17-20 n >= 1 times, the relay pin equals
\* relayState, relayState is 0 or 1, and the levels written to the pin are
\* LOW, HIGH, LOW, ... in turn, the first one LOW.
C13_RelayAlternates ==
    rly.iterations >= 1 =>
        /\ rly.PIN_RELAY = rly.relayState
        /\ rly.relayState \in {0, 1}
        /\ Len(rly.pinWrites) = rly.iterations
        /\ \A k \in 1..Len(rly.pinWrites) : rly.pinWrites[k] = (k + 1) % 2

\* C13, witness: the fourth iteration has left the pin HIGH and the delay
\* that follows it is running
C13_Witness ==
    /\ rly.pc = "delay"
    /\ rly.iterations = 4
    /\ rly.PIN_RELAY = 1
    /\ rly.pinWrites = << 0, 1, 0, 1 >>

---------------------------------------------------------------------------
(* The debounce tests of handleButton and handleSleepButton across the *)
(* rollover of millis()                                                *)

\* the 16-bit halves the chosen times are made of: around 0, around
\* debounceDelay, the sign bit, and just below 2^16
RolloverHalves == {0, 1, 49, 50, 51, 52, 32768, 65485, 65486, 65535}
\* the unsigned long values made of these halves
RolloverTimes == [hi : RolloverHalves, lo : RolloverHalves]

\* the last edge was accepted at time a (lastEdgeTime = a, millis() = a);
\* the next run of the handler comes d ms later
RolloverInit ==
    \E a \in RolloverTimes, d \in RolloverTimes :
        roll = [ pc       |-> "accepted",
                 a        |-> a,
                 d        |-> d,
                 button   |-> FALSE,    \* the test of handleButton passed
                 sleep    |-> FALSE ]   \* the test of handleSleepButton passed

\* d ms pass: millis() counts modulo 2^32
RolloverElapse ==
    /\ roll.pc = "accepted"
    /\ millis' = ULongAdd(millis, roll.d)
    /\ roll' = [roll EXCEPT !.pc = "edge"]
    /\ UNCHANGED << main, slp, btn, rly >>

\* the handlers read currTime = millis() and test
\* currTime - lastEdgeTime > 50
RolloverTest ==
    /\ roll.pc = "edge"
    /\ LET currTime == millis
           lastEdgeTime == roll.a
       IN roll' = [roll EXCEPT !.pc = "tested",
                     !.button = ButtonDebounced(currTime, lastEdgeTime),
                     !.sleep = SleepDebounced(currTime, lastEdgeTime)]
    /\ UNCHANGED << millis, main, slp, btn, rly >>

RolloverNext ==
    \/ RolloverElapse
    \/ RolloverTest

\* C15: for a last accepted edge at time a and a run of the handler d ms
\* later (d < 2^32), the test currTime - lastEdgeTime > 50 of handleButton
\* and of handleSleepButton passes exactly when d > 50, also when a + d has
\* wrapped past 2^32.
C15_DebounceAcrossRollover ==
    roll.pc = "tested" =>
        /\ roll.button <=> (roll.d.hi > 0 \/ roll.d.lo > 50)
        /\ roll.sleep <=> (roll.d.hi > 0 \/ roll.d.lo > 50)

\* C15, witness: the last edge was accepted 50 ms before the rollover, the
\* handler runs 51 ms later, when millis() has wrapped and reads 1, and both
\* tests pass
C15_Witness ==
    /\ roll.pc = "tested"
    /\ roll.a = [hi |-> 65535, lo |-> 65486]
    /\ roll.d = [hi |-> 0, lo |-> 51]
    /\ millis = [hi |-> 0, lo |-> 1]
    /\ roll.button /\ roll.sleep

---------------------------------------------------------------------------
(* Specifications *)

InitMain == millis = ULong(0) /\ MainInit /\ slp = "off" /\ btn = "off"
    /\ rly = "off" /\ roll = "off"

SpecMain == InitMain /\ [][MainNext]_vars

InitSleep == millis = ULong(0) /\ SleepInit /\ main = "off" /\ btn = "off"
    /\ rly = "off" /\ roll = "off"

SpecSleep == InitSleep /\ [][SleepNext]_vars

InitButton == millis = ULong(0) /\ ButtonInit /\ main = "off" /\ slp = "off"
    /\ rly = "off" /\ roll = "off"

SpecButton == InitButton /\ [][ButtonNext]_vars

InitRelay == millis = ULong(0) /\ RelayInit /\ main = "off" /\ slp = "off"
    /\ btn = "off" /\ roll = "off"

SpecRelay == InitRelay /\ [][RelayNext]_vars

\* the two debounce tests applied to the chosen pairs of times
InitRollover == RolloverInit /\ millis = roll.a /\ main = "off" /\ slp = "off"
    /\ btn = "off" /\ rly = "off"

SpecRollover == InitRollover /\ [][RolloverNext]_vars

\* init_rtc() alone; the processor keeps executing its straight-line code
InitInitRtc ==
    millis = ULong(SetupDelayMs) /\ InitRtcInit /\ main = "off" /\ btn = "off"
    /\ rly = "off" /\ roll = "off"

SpecInitRtc == InitInitRtc /\ [][InitRtcNext]_vars /\ WF_vars(InitRtcNext)

=============================================================================
